---- MODULE Spec2Model ----
(***************************************************************************)
(* Model of the retrieval-grounded prayer generation pipeline of           *)
(* Still Small Voice - Prayer:                                             *)
(*   services/pineconeService.ts  translateIntentToBiblical, embedQuery,   *)
(*                                queryPinecone, searchVerses,             *)
(*                                searchVersesForPrayer                    *)
(*   services/prayerService.ts    withRetry, cleanKJV,                     *)
(*   (src/unnamed/part_005)       generatePrayerFromRequest,               *)
(*                                renderSacredLetter                       *)
(*   App.tsx                      handlePray, handleListen,                *)
(*                                handleWriteAnother                       *)
(*   services/inworldService.ts   retry, generateInworldTTS                *)
(*   api/share-prayer.js          POST handler                             *)
(*   api/get-prayer/[id].js       GET handler                              *)
(*                                                                         *)
(* Text that the code inspects character by character (citation labels,    *)
(* scripture text) is a sequence of one-character strings.  Text that the  *)
(* code only passes along (request, theme, prayer body) is a TLA+ string.  *)
(* Similarity scores are integers in millionths (0.75 is 750000), which    *)
(* keeps the order of the scores the claims name.                          *)
(***************************************************************************)
EXTENDS Integers, Sequences, FiniteSets, TLC

(***************************************************************************)
(* Characters and strings                                                  *)
(***************************************************************************)

\* The characters JavaScript's \s matches that the model uses: U+0020, U+0009.
Whitespace == {" ", "\t"}

\* String.prototype.includes: hay contains needle as a contiguous substring.
Includes(hay, needle) ==
  \E i \in 0..(Len(hay) - Len(needle)) :
    \A j \in 1..Len(needle) : hay[i + j] = needle[j]

\* s.split(' ')[0]: the text before the first U+0020, all of s when it has none.
FirstSegment(s) ==
  IF \E i \in 1..Len(s) : s[i] = " "
  THEN LET first == CHOOSE i \in 1..Len(s) :
                      s[i] = " " /\ \A j \in 1..(i - 1) : s[j] # " "
       IN  SubSeq(s, 1, first - 1)
  ELSE s

\* Length of the whitespace run at the head of s.
RECURSIVE LeadingWhitespace(_)
LeadingWhitespace(s) ==
  IF s # <<>> /\ Head(s) \in Whitespace
  THEN 1 + LeadingWhitespace(Tail(s))
  ELSE 0

\* text.replace(/\s*\{[^}]*\}/g, ''): scanning left to right, a match starts
\* at the current position when the whitespace run there is followed by '{'
\* and a '}' occurs later; it ends at the first such '}'.
RECURSIVE StripNotes(_)
StripNotes(s) ==
  IF s = <<>> THEN <<>>
  ELSE LET k == LeadingWhitespace(s)
           closes == {j \in (k + 2)..Len(s) : s[j] = "}"}
       IN  IF k < Len(s) /\ s[k + 1] = "{" /\ closes # {}
           THEN LET close == CHOOSE j \in closes : \A m \in closes : j <= m
                IN  StripNotes(SubSeq(s, close + 1, Len(s)))
           ELSE <<Head(s)>> \o StripNotes(Tail(s))

\* .replace(/\s{2,}/g, ' '): every maximal run of two or more whitespace
\* characters becomes one U+0020; a single whitespace character stays.
RECURSIVE CollapseWhitespace(_)
CollapseWhitespace(s) ==
  IF s = <<>> THEN <<>>
  ELSE LET k == LeadingWhitespace(s)
       IN  IF k >= 2
           THEN <<" ">> \o CollapseWhitespace(SubSeq(s, k + 1, Len(s)))
           ELSE <<Head(s)>> \o CollapseWhitespace(Tail(s))

\* .trim(): whitespace removed at both ends.
RECURSIVE TrimEnd(_)
TrimEnd(s) ==
  IF s # <<>> /\ s[Len(s)] \in Whitespace
  THEN TrimEnd(SubSeq(s, 1, Len(s) - 1))
  ELSE s

Trim(s) == TrimEnd(SubSeq(s, LeadingWhitespace(s) + 1, Len(s)))

\* Mutation of StripNotes: a note may hold no '{', so only the innermost pair
\* of nested braces is removed (/\s*\{[^{}]*\}/g).
RECURSIVE StripNotes_Innermost(_)
StripNotes_Innermost(s) ==
  IF s = <<>> THEN <<>>
  ELSE LET k == LeadingWhitespace(s)
           braces == {j \in (k + 2)..Len(s) : s[j] \in {"{", "}"}}
       IN  IF k < Len(s) /\ s[k + 1] = "{" /\ braces # {}
           THEN LET next == CHOOSE j \in braces : \A m \in braces : j <= m
                IN  IF s[next] = "}"
                    THEN StripNotes_Innermost(SubSeq(s, next + 1, Len(s)))
                    ELSE <<Head(s)>> \o StripNotes_Innermost(Tail(s))
           ELSE <<Head(s)>> \o StripNotes_Innermost(Tail(s))

\* Mutation of cleanKJV: only the innermost notes are stripped.
cleanKJV_Innermost(text) == Trim(CollapseWhitespace(StripNotes_Innermost(text)))

\* Mutation of cleanKJV: the notes are kept.
cleanKJV_NotesKept(text) == Trim(CollapseWhitespace(text))

\* cleanKJV: strip KJV translator marginal notes like {wish: or, pray}.
cleanKJV(text) == Trim(CollapseWhitespace(StripNotes(text)))


\* Mutation of MatchesCitation: containment only.
MatchesCitation_ContainsOnly(g, c) == Includes(g, c) \/ Includes(c, g)

\* Mutation of MatchesCitation: the retrieved reference is never looked for
\* inside the cited label's containing text, only the other way round.
MatchesCitation_OneWay(g, c) ==
  \/ Includes(g, c)
  \/ FirstSegment(g) = FirstSegment(c)

\* The reconciler's citation match (the predicate of ragVerses.find):
\* either label contains the other, or their split(' ')[0] are equal.
MatchesCitation(g, c) ==
  \/ Includes(g, c)
  \/ Includes(c, g)
  \/ FirstSegment(g) = FirstSegment(c)

(***************************************************************************)
(* The world outside the pipeline: configuration, corpus, capabilities     *)
(***************************************************************************)

\* Largest number of matches the index answers with in the model (the code
\* asks for topK = 5).
MaxCandidates == 2

Requests == {"something to smile about", "I miss my mom"}

\* Keyword lists the text-generation capability may answer the translator with.
Translations == {"joy, laughter, gladness"}

John316 == <<"J","o","h","n"," ","3",":","1","6">>
John3 == <<"J","o","h","n"," ","3">>
John11 == <<"J","o","h","n"," ","1",":","1">>
Psalm231 == <<"P","s","a","l","m"," ","2","3",":","1">>
Psalm2316 == <<"P","s","a","l","m"," ","2","3",":","1","-","6">>
Romans828 == <<"R","o","m","a","n","s"," ","8",":","2","8">>

\* Scripture text with and without {...} marginal notes and double spaces.
TextLoved == <<"G","o","d"," ","{","o","r","}"," ","s","o">>
TextShepherd == <<"m","y"," "," ","s","h","e","p","h","e","r","d"," ","{","n","}">>
TextWord == <<"t","h","e"," ","W","o","r","d">>
TextKnow == <<"w","e"," ","k","n","o","w">>
TextRest == <<"I"," "," ","{","w","}"," ","r","e","s","t">>

\* The vectors of the index, as Pinecone returns them: id and metadata.
Corpus ==
  { [id |-> "v1", metadata |-> [reference |-> John316, text |-> TextLoved]],
    [id |-> "v2", metadata |-> [reference |-> John11, text |-> TextWord]],
    [id |-> "v3", metadata |-> [reference |-> Psalm231, text |-> TextShepherd]] }

\* Similarity scores in millionths, on both sides of the two thresholds.
Scores == {549999, 550000, 749999, 750000}

\* data.matches of a 200 answer of the index: up to MaxCandidates distinct
\* vectors, in descending order of score.
IndexMatches ==
  UNION { { m \in [1..n -> [vector : Corpus, score : Scores]] :
              /\ \A i, j \in 1..n : i < j => m[i].score >= m[j].score
              /\ \A i, j \in 1..n : i # j => m[i].vector # m[j].vector }
          : n \in 0..MaxCandidates }

\* Outcomes of one fetch of the translator's text-generation capability.
TranslateOutcomes ==
  { [kind |-> "networkError"], [kind |-> "nonOK"], [kind |-> "malformedBody"],
    [kind |-> "noText"] }
  \cup { [kind |-> "text", text |-> t] : t \in Translations }

\* Outcomes of the embedding fetch when the capability answers or the
\* network fails (the timeout of the search is the action SearchTimeout).
EmbedOutcomes ==
  { [kind |-> k] : k \in {"ok", "nonOK", "networkError", "malformedBody"} }

\* Outcomes of the index query fetch.
QueryOutcomes ==
  { [kind |-> k] : k \in {"nonOK", "networkError", "malformedBody"} }
  \cup { [kind |-> "ok", matches |-> m] : m \in IndexMatches }

\* Messages of errors the generation capability rejects with.
Msg503 == <<"5","0","3">>
MsgOverloaded == <<"o","v","e","r","l","o","a","d","e","d">>
MsgUnavailable == <<"U","N","A","V","A","I","L","A","B","L","E">>
Msg401 == <<"4","0","1">>
ErrorMessages == {Msg503, MsgOverloaded, MsgUnavailable, Msg401}

\* The four fields of PrayerResponse, required by the response schema.
Fields == {"scripture", "scripture_reference", "prayer", "theme"}

ScriptureTexts == {TextKnow, TextRest}
GeneratedLabels == {John3, Psalm2316, Romans828}

\* JSON objects the generation capability may answer with: any subset of the
\* four fields present.
GeneratedObjects ==
  { [k \in present |-> full[k]] :
      present \in SUBSET Fields,
      full \in [scripture : ScriptureTexts, scripture_reference : GeneratedLabels,
                prayer : {"Lord, today I ask"}, theme : {"A Reason to Smile"}] }

\* Outcomes of one call of ai.models.generateContent: a rejection (with or
\* without a message), or a response whose text is empty, is not JSON, or is
\* a JSON object.
GenerateOutcomes ==
  { [kind |-> "error", message |-> m] : m \in ErrorMessages }
  \cup { [kind |-> "error"] }
  \cup { [kind |-> "ok", text |-> "empty"], [kind |-> "ok", text |-> "malformed"] }
  \cup { [kind |-> "ok", text |-> "json", json |-> o] : o \in GeneratedObjects }


(***************************************************************************)
(* Pure steps of the pipeline                                              *)
(***************************************************************************)

maxRetries == 3
RetryDelayMs == 2000
HighThreshold == 750000
MediumThreshold == 550000

\* searchVerses' and queryPinecone's default for topK, and the cap of
\* Math.min(topK, 10).
DefaultTopK == 5
TopKCap == 10

\* const { topK = 5, filter } = options: the caller's topK, 5 when omitted.
TopKOf(options) ==
  IF "topK" \in DOMAIN options THEN options.topK ELSE DefaultTopK

\* Mutation of QueryBody: the caller's topK is sent as it came.
QueryBody_Unclamped(topK) ==
  [topK |-> topK, namespace |-> "kjv", includeMetadata |-> TRUE]

\* The JSON body queryPinecone posts to the index (the vector left out).
QueryBody(topK) ==
  [topK |-> IF topK < TopKCap THEN topK ELSE TopKCap,
   namespace |-> "kjv", includeMetadata |-> TRUE]

NoteHigh == "These are strong matches - one of them likely speaks to what this person needs."
NoteMedium == "These are partial matches. Use one if it genuinely fits, but if none truly speak to their heart, you may choose a different verse from your knowledge of Scripture."
NoteLow == "These matches are weak. Feel free to choose a verse that better fits their need from your own knowledge of Scripture. The retrieved verses are only suggestions."

\* Mutation of confidenceNote: the thresholds taken as exclusive.
confidenceNote_Exclusive(bestScore) ==
  IF bestScore > HighThreshold THEN NoteHigh
  ELSE IF bestScore > MediumThreshold THEN NoteMedium
  ELSE NoteLow

\* The instruction sentence chosen from the best score.
confidenceNote(bestScore) ==
  IF bestScore >= HighThreshold THEN NoteHigh
  ELSE IF bestScore >= MediumThreshold THEN NoteMedium
  ELSE NoteLow

\* The tier the pipeline logs for the best score.
confidenceTier(bestScore) ==
  IF bestScore >= HighThreshold THEN "HIGH"
  ELSE IF bestScore >= MediumThreshold THEN "MEDIUM"
  ELSE "LOW"

\* queryPinecone's mapping of one match to a RetrievedVerse.
RetrievedVerse(match) ==
  [ reference |-> IF "reference" \in DOMAIN match.vector.metadata
                  THEN match.vector.metadata.reference
                  ELSE match.vector.id,
    text |-> IF "text" \in DOMAIN match.vector.metadata
             THEN match.vector.metadata.text
             ELSE <<>>,
    score |-> match.score ]

\* (score * 100).toFixed(0): the score as a whole percentage.
RelevancePercent(score) == (score + 5000) \div 10000

\* Mutation of ragContextOf: the sentence is chosen from the last result's
\* score.
ragContextOf_LastScore(results) ==
  IF Len(results) > 0
  THEN [ i \in 1..Len(results) |->
           [ n |-> i, reference |-> results[i].reference,
             relevance |-> RelevancePercent(results[i].score),
             text |-> results[i].text ] ]
       \o << [note |-> confidenceNote(results[Len(results)].score)] >>
  ELSE <<>>

\* Mutation of ragContextOf: a block with its sentence even without results.
ragContextOf_AlwaysNote(results) ==
  [ i \in 1..Len(results) |->
      [ n |-> i, reference |-> results[i].reference,
        relevance |-> RelevancePercent(results[i].score),
        text |-> results[i].text ] ]
  \o << [note |-> IF Len(results) > 0 THEN confidenceNote(results[1].score)
                  ELSE NoteLow] >>

\* The evidence block: '' (the empty sequence) without results, else one
\* numbered line per result followed by the instruction sentence.
ragContextOf(results) ==
  IF Len(results) > 0
  THEN [ i \in 1..Len(results) |->
           [ n |-> i, reference |-> results[i].reference,
             relevance |-> RelevancePercent(results[i].score),
             text |-> results[i].text ] ]
       \o << [note |-> confidenceNote(results[1].score)] >>
  ELSE <<>>

\* The query searchVersesForPrayer builds from the translator's answer.
SearchQuery(biblicalConcepts) ==
  << "Bible verses about ", biblicalConcepts,
     ". Scripture for someone who needs ", biblicalConcepts, "." >>

\* Mutation of TranslationOf: a failed translation yields no text.
TranslationOf_NoFallback(prayerRequest, outcome) ==
  IF outcome.kind = "text" THEN outcome.text ELSE ""

\* What translateIntentToBiblical returns for one outcome of its fetch.
TranslationOf(prayerRequest, outcome) ==
  IF outcome.kind = "text" THEN outcome.text ELSE prayerRequest

\* Mutation of isRetryable: every rejection counts as transient.
isRetryable_Any(error) == TRUE

\* withRetry's isRetryable: the error's message contains one of three markers.
isRetryable(error) ==
  /\ "message" \in DOMAIN error
  /\ \/ Includes(error.message, Msg503)
     \/ Includes(error.message, MsgOverloaded)
     \/ Includes(error.message, MsgUnavailable)

\* Mutation of shouldRetry: the attempt bound off by one.
shouldRetry_OffByOne(error, attemptNo) ==
  isRetryable(error) /\ attemptNo <= maxRetries

\* withRetry's test after a failed attempt: wait and try again?
shouldRetry(error, attemptNo) == isRetryable(error) /\ attemptNo < maxRetries

\* Mutation of backoffDelay: the same wait before every retry.
backoffDelay_Constant(attemptNo) == RetryDelayMs

\* const delay = attempt * 2000: the wait after the failed attempt attemptNo.
backoffDelay(attemptNo) == attemptNo * RetryDelayMs

\* JSON.parse(response.text || '{}').
ParseResponse(response) ==
  CASE response.text = "empty"     -> [ok |-> TRUE, value |-> <<>>]
    [] response.text = "malformed" -> [ok |-> FALSE, error |-> [kind |-> "error", name |-> "SyntaxError"]]
    [] OTHER                       -> [ok |-> TRUE, value |-> response.json]

\* ragVerses.find(...): the first verse, in retrieval order, that the cited
\* label matches; 0 when there is none.
matchedVerse(label, verses) ==
  LET hits == {i \in 1..Len(verses) : MatchesCitation(label, verses[i].reference)}
  IN  IF hits = {} THEN 0 ELSE CHOOSE i \in hits : \A j \in hits : i <= j

TypeError == [ok |-> FALSE, error |-> [kind |-> "error", name |-> "TypeError"]]

\* Mutation of UseRetrievedVerse: the retrieved text is taken as the index
\* holds it, notes included.
UseRetrievedVerse_RawText(prayer, verse) ==
  [ok |-> TRUE,
   value |-> [k \in DOMAIN prayer \cup {"scripture"} |->
                IF k = "scripture" THEN verse.text
                ELSE IF k = "scripture_reference" THEN verse.reference
                ELSE prayer[k]]]

\* Mutation of UseRetrievedVerse: the retrieved text under the generator's label.
UseRetrievedVerse_KeepsLabel(prayer, verse) ==
  [ok |-> TRUE,
   value |-> [k \in DOMAIN prayer \cup {"scripture"} |->
                IF k = "scripture" THEN cleanKJV(verse.text) ELSE prayer[k]]]

\* The cited label matched a retrieved verse: its clean text and its
\* reference replace the generator's.
UseRetrievedVerse(prayer, verse) ==
  [ok |-> TRUE,
   value |-> [k \in DOMAIN prayer \cup {"scripture"} |->
                IF k = "scripture" THEN cleanKJV(verse.text)
                ELSE IF k = "scripture_reference" THEN verse.reference
                ELSE prayer[k]]]

\* Mutation of TrustGeminiVerse: an unmatched citation falls back to the best
\* retrieved verse.
TrustGeminiVerse_Overrides(prayer, verses) ==
  UseRetrievedVerse(prayer, verses[1])

\* The cited label matched none of the retrieved verses: the generator's
\* verse is kept, its text cleaned (cleanKJV of a missing text is a TypeError).
TrustGeminiVerse(prayer, verses) ==
  IF "scripture" \notin DOMAIN prayer THEN TypeError
  ELSE [ok |-> TRUE, value |-> [prayer EXCEPT !.scripture = cleanKJV(@)]]

\* Mutation of CleanOwnVerse: the generator's text is returned as it came.
CleanOwnVerse_Raw(prayer) ==
  IF "scripture" \notin DOMAIN prayer THEN TypeError
  ELSE [ok |-> TRUE, value |-> prayer]

\* No verses were retrieved: whatever the generator returned is cleaned.
CleanOwnVerse(prayer) ==
  IF "scripture" \notin DOMAIN prayer THEN TypeError
  ELSE [ok |-> TRUE, value |-> [prayer EXCEPT !.scripture = cleanKJV(@)]]

\* The post-generation validation of the parsed prayer against ragVerses.
\* Calling a method of a missing field is a TypeError.
Reconcile(prayer, verses) ==
  IF Len(verses) > 0
  THEN IF "scripture_reference" \notin DOMAIN prayer
       THEN TypeError
       ELSE LET m == matchedVerse(prayer.scripture_reference, verses)
            IN  IF m # 0
                THEN UseRetrievedVerse(prayer, verses[m])
                ELSE TrustGeminiVerse(prayer, verses)
  ELSE CleanOwnVerse(prayer)

(***************************************************************************)
(* One run of generatePrayerFromRequest                                    *)
(***************************************************************************)

VARIABLES
  pc,                 \* where the run is suspended: the await it waits on
  request,            \* the prayer request the run was called with
  geminiKey,          \* getGeminiKey() of pineconeService is non-empty
  pineconeConfigured, \* getPineconeConfig() has both apiKey and host
  translatorAnswer,   \* how the translator's fetch settled, while the search
                      \* that awaited it runs ("none" before and after)
  biblicalConcepts,   \* what translateIntentToBiblical returned ("" before)
  ragVerses,          \* the retrieved verses kept for the validation
  ragContext,         \* the evidence block put in the prompt
  loggedTier,         \* the confidence the run logged ("NONE" when it did not)
  ragError,           \* message of the search failure the run caught ("" if none)
  prompt,             \* contents of the generation call
  attempt,            \* withRetry's loop variable
  responses,          \* what generateContent answered, call by call
  delays,             \* the waits withRetry made, in ms
  promise,            \* the promise generatePrayerFromRequest returned
  translateCalls,     \* fetches of the translator's capability
  embedCalls,         \* fetches of the embedding capability
  queryCalls,         \* fetches of the index
  generateCalls,      \* calls of generateContent
  inFlight,           \* the external calls sent and not yet settled or cancelled
  aborted,            \* the fetches the search's abort signal cancelled
  searchTimer,        \* the setTimeout of searchVerses: unset, armed, fired
                      \* (controller.abort() ran) or cleared
  phase,              \* the view's phase: composing, generating, viewing
  viewError,          \* the view's error message ("" for null)
  prayerResult,       \* the view's prayer result: <<>> for null, else <<prayer>>
  probeLabel,         \* match harness: a label cited by the generator
  probeReference,     \* match harness: the reference of a retrieved verse
  probeMatched,       \* match harness: what ragVerses.find answered
  probeMatchedBack,   \* match harness: what the find answered with the label
                      \* and the reference exchanged
  stripInput,         \* strip harness: a scripture text given to cleanKJV
  stripRuns,          \* strip harness: what cleanKJV returned, first for the
                      \* input, then for its own result
  searchOptions,      \* topK harness: the options searchVerses is called with
  queryBodies,        \* topK harness: the bodies posted to the index
  blobStore,          \* share API: Vercel Blob, short id -> <<>> or <<stored data>>
  redisStore,         \* share API: Upstash Redis, short id -> <<>> or <<stored data>>
  redisInitial,       \* share API: what Redis held before any request
  upstashConfigured,  \* share API: the Upstash URL and token are set
  sharePosts,         \* share API: POST handlers waiting for put()
  shareResponses,     \* share API: the answers of POST /api/share-prayer
  getCalls,           \* share API: GET handlers waiting for the Redis GET
  viewSets,           \* share API: view-count SETs sent and not yet applied
  getResponses,       \* share API: the answers of GET /api/get-prayer/<id>
  getCount,           \* share API: GET requests received so far
  postCount,           \* share API: POST requests received so far
  ttsState,           \* retry(): "idle", "calling", "waiting", "returned" or "thrown"
  attempts,           \* retry(): the counter of failed attempts
  ttsCalls,           \* number of times fn was called
  ttsWaits,           \* the waits slept so far, in ms, in order
  ttsFailures,        \* the errors fn threw so far, in order
  ttsThrown,           \* the error retry() threw, as << >> or << error >>
  shareUrl,           \* App state: 0 (null) or the prayer the share URL was issued for
  audioUrl,           \* App state: 0 (null) or the prayer the cached audio speaks
  isListening,        \* App state: a speech request is being awaited
  audioRef,           \* 0 or the prayer whose audio is playing
  shareFetches,       \* prayers whose background share POST is in flight
  listenCalls,        \* prayers whose speech request is in flight
  prayInFlight,       \* 0 or the number of the prayer being generated
  prayCount,           \* number of prayers asked for so far
  runRequest,         \* two runs: the request each run was called with
  runPos,             \* two runs: each run's position, calls made and promise
  runLocals,          \* two runs: the locals, by the scope that holds them
  runEvents,          \* two runs: what each run was delivered, in order
  touched             \* two runs: the runs that read or wrote each scope

vars == << pc, request, geminiKey, pineconeConfigured, translatorAnswer,
           biblicalConcepts,
           ragVerses, ragContext, loggedTier, ragError, prompt, attempt,
           responses, delays, promise, translateCalls, embedCalls, queryCalls,
           generateCalls, inFlight, aborted, searchTimer, phase, viewError,
           prayerResult, probeLabel, probeReference, probeMatched,
           probeMatchedBack, stripInput, stripRuns, searchOptions,
           queryBodies,
           blobStore, redisStore, redisInitial, upstashConfigured,
           sharePosts, shareResponses, getCalls, viewSets, getResponses,
           getCount, postCount,
           ttsState, attempts, ttsCalls, ttsWaits, ttsFailures,
           ttsThrown,
           shareUrl, audioUrl, isListening, audioRef,
           shareFetches, listenCalls, prayInFlight, prayCount,
           runRequest, runPos, runLocals, runEvents, touched >>

matchVars == << probeLabel, probeReference, probeMatched, probeMatchedBack >>
stripVars == << stripInput, stripRuns >>
topKVars == << searchOptions, queryBodies >>
shareVars == << blobStore, redisStore, redisInitial, upstashConfigured,
               sharePosts, shareResponses, getCalls, viewSets, getResponses,
               getCount, postCount >>
ttsVars == << ttsState, attempts, ttsCalls, ttsWaits, ttsFailures, ttsThrown >>
sessionVars == << shareUrl, audioUrl, isListening, audioRef, shareFetches,
            listenCalls, prayInFlight, prayCount >>
pairVars == << runRequest, runPos, runLocals, runEvents, touched >>
probe == << matchVars, stripVars, topKVars, shareVars, ttsVars, sessionVars, pairVars >>
config == << request, geminiKey, pineconeConfigured >>
retryVars == << attempt, responses, delays, promise, generateCalls >>
ragVars == << ragVerses, ragContext, loggedTier, ragError, prompt >>
netVars == << inFlight, aborted, searchTimer >>
viewVars == << phase, viewError, prayerResult >>
engineVars == << config, pc, translatorAnswer, biblicalConcepts, ragVars,
                retryVars, translateCalls, embedCalls, queryCalls, netVars >>
runVars == << config, pc, translatorAnswer, biblicalConcepts, ragVars, retryVars,
             translateCalls, embedCalls, queryCalls, netVars, viewVars >>

\* A run that has not been called yet.
IdleRun ==
  /\ pc = "idle"
  /\ translatorAnswer = [kind |-> "none"]
  /\ biblicalConcepts = ""
  /\ ragVerses = <<>>
  /\ ragContext = <<>>
  /\ loggedTier = "NONE"
  /\ ragError = ""
  /\ prompt = <<>>
  /\ attempt = 0
  /\ responses = <<>>
  /\ delays = <<>>
  /\ promise = [state |-> "pending"]
  /\ translateCalls = 0
  /\ embedCalls = 0
  /\ queryCalls = 0
  /\ generateCalls = 0
  /\ inFlight = {}
  /\ aborted = {}
  /\ searchTimer = "unset"
  /\ phase = "composing"
  /\ viewError = ""
  /\ prayerResult = <<>>

\* The match harness before a lookup, with no labels.
IdleMatch ==
  /\ probeLabel = <<>>
  /\ probeReference = <<>>
  /\ probeMatched = "untested"
  /\ probeMatchedBack = "untested"

\* The strip harness before a call, with no text.
IdleStrip ==
  /\ stripInput = <<>>
  /\ stripRuns = <<>>

\* The topK harness before a search, called without options.
IdleTopK ==
  /\ searchOptions = [k \in {} |-> 0]
  /\ queryBodies = <<>>

\* The share API with empty stores and no request.
IdleShare ==
  /\ blobStore = [i \in {} |-> <<>>]
  /\ redisStore = [i \in {} |-> <<>>]
  /\ redisInitial = [i \in {} |-> <<>>]
  /\ upstashConfigured = FALSE
  /\ sharePosts = {}
  /\ shareResponses = {}
  /\ getCalls = {}
  /\ viewSets = {}
  /\ getResponses = {}
  /\ getCount = 0
  /\ postCount = 0

\* No speech request has been made.
IdleTts ==
  /\ ttsState = "idle"
  /\ attempts = 0
  /\ ttsCalls = 0
  /\ ttsWaits = <<>>
  /\ ttsFailures = <<>>
  /\ ttsThrown = <<>>

\* The app as mounted: nothing shared, nothing spoken.
IdleSession ==
  /\ shareUrl = 0
  /\ audioUrl = 0
  /\ isListening = FALSE
  /\ audioRef = 0
  /\ shareFetches = {}
  /\ listenCalls = {}
  /\ prayInFlight = 0
  /\ prayCount = 0

\* No pair of concurrent runs.
IdlePair ==
  /\ runRequest = <<>>
  /\ runPos = <<>>
  /\ runLocals = <<>>
  /\ runEvents = <<>>
  /\ touched = <<>>

Init ==
  /\ request \in Requests
  /\ geminiKey \in BOOLEAN
  /\ pineconeConfigured \in BOOLEAN
  /\ IdleRun
  /\ IdleMatch
  /\ IdleStrip
  /\ IdleTopK
  /\ IdleShare
  /\ IdleTts
  /\ IdleSession
  /\ IdlePair

\* The generation prompt: the request and the evidence block (the fixed
\* instructions around them are left out).
PromptOf(req, context) == [request |-> req, ragContext |-> context]

\* The message handlePray shows for any failure.
GenericFailure == "The prayer could not be written. Please try again."

\* Mutation of OnPrayFailed: the view goes on to the viewing phase.
OnPrayFailed_Viewing(reason) == [phase |-> "viewing", error |-> GenericFailure]

\* handlePray's catch: whatever was thrown, the one message is set and the
\* view returns to composing.
OnPrayFailed(reason) == [phase |-> "composing", error |-> GenericFailure]

\* handlePray is called with a request typed in: the view shows the loading
\* phase and clears the error.
ViewStarts ==
  /\ phase' = "generating"
  /\ viewError' = ""
  /\ UNCHANGED prayerResult

\* handlePray's continuation once the run's promise p has settled.  On a
\* prayer the letter is rendered (renderSacredLetter settles without waiting:
\* it rejects without a 2d context, or on a TypeError when prayer.prayer is
\* missing), the result is set and the view enters viewing; on any failure
\* the catch runs.
ViewSettles(p, canvasOk) ==
  IF p.state = "fulfilled" /\ canvasOk /\ "prayer" \in DOMAIN p.value
  THEN /\ prayerResult' = << p.value >>
       /\ phase' = "viewing"
       /\ UNCHANGED viewError
  ELSE LET failed == OnPrayFailed(p)
       IN  /\ phase' = failed.phase
           /\ viewError' = failed.error
           /\ UNCHANGED prayerResult

\* The run leaves the search (with results, or with the failure it caught),
\* builds the prompt and makes the first generation call.
EnterGeneration(results, caught) ==
  /\ ragVerses' = [i \in 1..Len(results) |->
                     [reference |-> results[i].reference,
                      text |-> results[i].text, score |-> results[i].score]]
  /\ ragContext' = ragContextOf(results)
  /\ loggedTier' = IF Len(results) > 0 THEN confidenceTier(results[1].score)
                   ELSE "NONE"
  /\ ragError' = caught
  /\ translatorAnswer' = [kind |-> "none"]
  /\ prompt' = PromptOf(request, ragContextOf(results))
  /\ attempt' = 1
  /\ generateCalls' = 1
  /\ pc' = "generating"

\* Mutation of StartTranslate: the embedding of the raw request is sent
\* together with the translator's fetch.
StartTranslate_Parallel ==
  /\ pc = "idle"
  /\ geminiKey
  /\ pc' = "translating"
  /\ translateCalls' = translateCalls + 1
  /\ embedCalls' = embedCalls + 1
  /\ inFlight' = inFlight \cup {"translate", "embed"}
  /\ ViewStarts
  /\ UNCHANGED << probe, config, translatorAnswer, biblicalConcepts, ragVars, retryVars,
                  queryCalls, aborted, searchTimer >>

\* generatePrayerFromRequest is called with a Gemini key configured: the
\* translator's fetch is sent.
StartTranslate ==
  /\ pc = "idle"
  /\ geminiKey
  /\ pc' = "translating"
  /\ translateCalls' = translateCalls + 1
  /\ inFlight' = inFlight \cup {"translate"}
  /\ ViewStarts
  /\ UNCHANGED << probe, config, translatorAnswer, biblicalConcepts, ragVars, retryVars,
                  embedCalls, queryCalls, aborted, searchTimer >>

\* Called without a Gemini key: the translator returns the request, embedQuery
\* throws, the failure is caught and generation starts.
StartNoKey ==
  /\ pc = "idle"
  /\ ~geminiKey
  /\ biblicalConcepts' = request
  /\ EnterGeneration(<<>>, "Gemini API key not configured for embeddings")
  /\ searchTimer' = "cleared"
  /\ inFlight' = inFlight \cup {"generate"}
  /\ ViewStarts
  /\ UNCHANGED << probe, config, responses, delays, promise, translateCalls,
                  embedCalls, queryCalls, aborted >>

\* The translator's fetch settles; searchVerses starts and sends the
\* embedding fetch (its query is never empty: SearchQuery adds fixed text).
TranslateReturn(outcome) ==
  /\ pc = "translating"
  /\ translatorAnswer' = outcome
  /\ biblicalConcepts' = TranslationOf(request, outcome)
  /\ pc' = "embedding"
  /\ embedCalls' = embedCalls + 1
  /\ searchTimer' = "armed"
  /\ inFlight' = (inFlight \ {"translate"}) \cup {"embed"}
  /\ UNCHANGED << probe, config, ragVars, retryVars, translateCalls, queryCalls,
                  aborted, viewVars >>

\* The message of the error searchVerses throws for a failed fetch.
SearchError(stage, outcome) ==
  CASE outcome.kind = "aborted"      -> "RAG search timed out"
    [] outcome.kind = "networkError" -> "Failed to fetch"
    [] outcome.kind = "malformedBody" -> "TypeError"
    [] OTHER -> IF stage = "embed" THEN "Failed to generate query embedding"
                ELSE "Failed to search vector database"

\* The embedding fetch answers with a vector: the index is queried.
EmbedReturnOk ==
  /\ pc = "embedding"
  /\ pineconeConfigured
  /\ pc' = "querying"
  /\ queryCalls' = queryCalls + 1
  /\ inFlight' = (inFlight \ {"embed"}) \cup {"query"}
  /\ UNCHANGED << probe, config, translatorAnswer, biblicalConcepts, ragVars, retryVars,
                  translateCalls, embedCalls, aborted, searchTimer, viewVars >>

\* The embedding fetch answers with a vector but Pinecone is not configured:
\* queryPinecone throws before any fetch.
EmbedReturnNoIndex ==
  /\ pc = "embedding"
  /\ ~pineconeConfigured
  /\ EnterGeneration(<<>>, "Pinecone not configured")
  /\ searchTimer' = "cleared"
  /\ inFlight' = (inFlight \ {"embed"}) \cup {"generate"}
  /\ UNCHANGED << probe, config, biblicalConcepts, responses, delays, promise,
                  translateCalls, embedCalls, queryCalls, aborted, viewVars >>

\* Mutation of EmbedFails: the failure is not caught and rejects the run.
EmbedFails_Uncaught(outcome) ==
  /\ pc = "embedding"
  /\ outcome.kind # "ok"
  /\ ragError' = SearchError("embed", outcome)
  /\ promise' = [state |-> "rejected",
                 reason |-> [kind |-> "error", name |-> SearchError("embed", outcome)]]
  /\ pc' = "done"
  /\ searchTimer' = "cleared"
  /\ inFlight' = inFlight \ {"embed"}
  /\ ViewSettles([state |-> "rejected"], TRUE)
  /\ UNCHANGED << probe, config, translatorAnswer, biblicalConcepts, ragVerses,
                  ragContext, loggedTier, prompt, attempt, responses, delays,
                  translateCalls, embedCalls, queryCalls, generateCalls, aborted >>

\* Mutation of EmbedFails: a failed embedding fetch is sent once more.
EmbedFails_Retries(outcome) ==
  /\ pc = "embedding"
  /\ outcome.kind # "ok"
  /\ embedCalls < 2
  /\ embedCalls' = embedCalls + 1
  /\ UNCHANGED << probe, config, translatorAnswer, biblicalConcepts, ragVars,
                  retryVars, translateCalls, queryCalls, netVars, viewVars, pc >>

\* The embedding fetch fails: searchVerses clears its timer and rethrows.
EmbedFails(outcome) ==
  /\ pc = "embedding"
  /\ outcome.kind # "ok"
  /\ EnterGeneration(<<>>, SearchError("embed", outcome))
  /\ searchTimer' = "cleared"
  /\ inFlight' = (inFlight \ {"embed"}) \cup {"generate"}
  /\ UNCHANGED << probe, config, biblicalConcepts, responses, delays, promise,
                  translateCalls, embedCalls, queryCalls, aborted, viewVars >>

\* The index answers: its matches become the results.
QueryReturnOk(outcome) ==
  /\ pc = "querying"
  /\ outcome.kind = "ok"
  /\ EnterGeneration([i \in 1..Len(outcome.matches) |->
                        RetrievedVerse(outcome.matches[i])], "")
  /\ searchTimer' = "cleared"
  /\ inFlight' = (inFlight \ {"query"}) \cup {"generate"}
  /\ UNCHANGED << probe, config, biblicalConcepts, responses, delays, promise,
                  translateCalls, embedCalls, queryCalls, aborted, viewVars >>

\* The index query fails: searchVerses clears its timer and rethrows.
QueryFails(outcome) ==
  /\ pc = "querying"
  /\ outcome.kind # "ok"
  /\ EnterGeneration(<<>>, SearchError("query", outcome))
  /\ searchTimer' = "cleared"
  /\ inFlight' = (inFlight \ {"query"}) \cup {"generate"}
  /\ UNCHANGED << probe, config, biblicalConcepts, responses, delays, promise,
                  translateCalls, embedCalls, queryCalls, aborted, viewVars >>

\* The fetches that were given controller.signal.
CarriesSignal(call) == call \in {"embed", "query"}

\* Mutation of SearchTimeout: the search stops awaiting the fetch and fails
\* with the timeout error, but the fetch itself is left running.
SearchTimeout_Abandons ==
  /\ pc \in {"embedding", "querying"}
  /\ searchTimer = "armed"
  /\ searchTimer' = "fired"
  /\ inFlight' = inFlight \cup {"generate"}
  /\ EnterGeneration(<<>>, SearchError("search", [kind |-> "aborted"]))
  /\ UNCHANGED << probe, config, biblicalConcepts, responses, delays, promise,
                  translateCalls, embedCalls, queryCalls, aborted, viewVars >>

\* API_TIMEOUT_MS after searchVerses started, with the embedding or the index
\* fetch still in flight: the timer calls controller.abort(), the fetch that
\* holds the signal is cancelled and rejects with an AbortError, searchVerses
\* throws 'RAG search timed out', the failure is caught and generation starts.
SearchTimeout ==
  /\ pc \in {"embedding", "querying"}
  /\ searchTimer = "armed"
  /\ searchTimer' = "fired"
  /\ aborted' = {call \in inFlight : CarriesSignal(call)}
  /\ inFlight' = {call \in inFlight : ~CarriesSignal(call)} \cup {"generate"}
  /\ EnterGeneration(<<>>, SearchError("search", [kind |-> "aborted"]))
  /\ UNCHANGED << probe, config, biblicalConcepts, responses, delays, promise,
                  translateCalls, embedCalls, queryCalls, viewVars >>

\* generateContent rejects: withRetry waits and tries again, or rethrows.
GenerateFails(outcome) ==
  /\ pc = "generating"
  /\ outcome.kind = "error"
  /\ responses' = Append(responses, outcome)
  /\ inFlight' = inFlight \ {"generate"}
  /\ IF shouldRetry(outcome, attempt)
     THEN /\ delays' = Append(delays, backoffDelay(attempt))
          /\ pc' = "backoff"
          /\ UNCHANGED << promise, viewVars >>
     ELSE /\ promise' = [state |-> "rejected", reason |-> outcome]
          /\ ViewSettles([state |-> "rejected", reason |-> outcome], TRUE)
          /\ pc' = "done"
          /\ UNCHANGED delays
  /\ UNCHANGED << probe, config, translatorAnswer, biblicalConcepts, ragVars, attempt,
                  translateCalls, embedCalls, queryCalls, generateCalls,
                  aborted, searchTimer >>

\* The backoff timer fires: the loop goes on to the next attempt and calls
\* generateContent again, or ends with 'Max retries exceeded'.
BackoffElapsed ==
  /\ pc = "backoff"
  /\ attempt' = attempt + 1
  /\ IF attempt + 1 <= maxRetries
     THEN /\ generateCalls' = generateCalls + 1
          /\ inFlight' = inFlight \cup {"generate"}
          /\ pc' = "generating"
          /\ UNCHANGED << promise, viewVars >>
     ELSE /\ promise' = [state |-> "rejected",
                         reason |-> [kind |-> "error", name |-> "Max retries exceeded"]]
          /\ ViewSettles([state |-> "rejected"], TRUE)
          /\ pc' = "done"
          /\ UNCHANGED << generateCalls, inFlight >>
  /\ UNCHANGED << probe, config, translatorAnswer, biblicalConcepts, ragVars, responses,
                  delays, translateCalls, embedCalls, queryCalls, aborted,
                  searchTimer >>

\* What the run settles with once generateContent has answered: the
\* response is parsed and validated against the retrieved verses.
Settle(response, verses) ==
  LET parsed == ParseResponse(response)
  IN  IF ~parsed.ok
      THEN [state |-> "rejected", reason |-> parsed.error]
      ELSE LET reconciled == Reconcile(parsed.value, verses)
           IN  IF reconciled.ok
               THEN [state |-> "fulfilled", value |-> reconciled.value]
               ELSE [state |-> "rejected", reason |-> reconciled.error]

\* generateContent answers: parse, validate, return.
GenerateResponds(outcome) ==
  /\ pc = "generating"
  /\ outcome.kind = "ok"
  /\ responses' = Append(responses, outcome)
  /\ promise' = Settle(outcome, ragVerses)
  /\ \E canvasOk \in BOOLEAN : ViewSettles(Settle(outcome, ragVerses), canvasOk)
  /\ inFlight' = inFlight \ {"generate"}
  /\ pc' = "done"
  /\ UNCHANGED << probe, config, translatorAnswer, biblicalConcepts, ragVars, attempt,
                  delays, translateCalls, embedCalls, queryCalls, generateCalls,
                  aborted, searchTimer >>

Next ==
  \/ StartTranslate
  \/ StartNoKey
  \/ \E outcome \in TranslateOutcomes : TranslateReturn(outcome)
  \/ EmbedReturnOk
  \/ EmbedReturnNoIndex
  \/ \E outcome \in EmbedOutcomes : EmbedFails(outcome)
  \/ \E outcome \in QueryOutcomes : QueryReturnOk(outcome)
  \/ \E outcome \in QueryOutcomes : QueryFails(outcome)
  \/ SearchTimeout
  \/ \E outcome \in GenerateOutcomes : GenerateFails(outcome)
  \/ BackoffElapsed
  \/ \E outcome \in GenerateOutcomes : GenerateResponds(outcome)

Spec == Init /\ [][Next]_vars

\* What the code itself schedules is bound to happen: the search's timeout
\* fires while its timer is armed, and a backoff delay elapses.  A capability
\* is under no obligation to answer.
FairSpec ==
  /\ Spec
  /\ WF_vars(SearchTimeout)
  /\ WF_vars(BackoffElapsed)

(***************************************************************************)
(* The citation match on its own: ragVerses.find over one retrieved verse, *)
(* for every pair of labels up to MaxLabelLen characters                   *)
(***************************************************************************)

MaxLabelLen == 3
LabelAlphabet == {"J", "3", " ", "\t"}
Labels == UNION { [1..n -> LabelAlphabet] : n \in 0..MaxLabelLen }

InitMatch ==
  /\ probeLabel \in Labels
  /\ probeReference \in Labels
  /\ probeMatched = "untested"
  /\ probeMatchedBack = "untested"
  /\ IdleStrip
  /\ IdleTopK
  /\ request = "I miss my mom"
  /\ geminiKey = TRUE
  /\ pineconeConfigured = TRUE
  /\ IdleRun
  /\ IdleShare
  /\ IdleTts
  /\ IdleSession
  /\ IdlePair

\* The validation looks the cited label up among the retrieved verses.
FindMatch ==
  /\ probeMatched = "untested"
  /\ probeMatched' =
       IF matchedVerse(probeLabel,
                       << [reference |-> probeReference, text |-> <<>>, score |-> 0] >>) # 0
       THEN "matched" ELSE "unmatched"
  /\ UNCHANGED << probeLabel, probeReference, probeMatchedBack, stripVars,
                  topKVars, runVars, shareVars, ttsVars,
                  sessionVars,
                  pairVars >>

\* The same lookup with the roles exchanged: the reference is the cited label
\* and the label is the reference of the one retrieved verse.
FindMatchBack ==
  /\ probeMatchedBack = "untested"
  /\ probeMatchedBack' =
       IF matchedVerse(probeReference,
                       << [reference |-> probeLabel, text |-> <<>>, score |-> 0] >>) # 0
       THEN "matched" ELSE "unmatched"
  /\ UNCHANGED << probeLabel, probeReference, probeMatched, stripVars,
                  topKVars, runVars, shareVars, ttsVars,
                  sessionVars,
                  pairVars >>

NextMatch == FindMatch \/ FindMatchBack

SpecMatch == InitMatch /\ [][NextMatch]_vars

(***************************************************************************)
(* cleanKJV on its own: every text up to MaxTextLen characters is stripped,*)
(* and the result is stripped again                                        *)
(***************************************************************************)

MaxTextLen == 6
TextAlphabet == {"a", "{", "}", " ", "\t"}
Texts == UNION { [1..n -> TextAlphabet] : n \in 0..MaxTextLen }

InitStrip ==
  /\ stripInput \in Texts
  /\ stripRuns = <<>>
  /\ IdleMatch
  /\ IdleTopK
  /\ request = "I miss my mom"
  /\ geminiKey = TRUE
  /\ pineconeConfigured = TRUE
  /\ IdleRun
  /\ IdleShare
  /\ IdleTts
  /\ IdleSession
  /\ IdlePair

\* cleanKJV is called, on the input and then on what it returned.
Strip ==
  /\ Len(stripRuns) < 2
  /\ stripRuns' = Append(stripRuns,
                         cleanKJV(IF stripRuns = <<>> THEN stripInput
                                  ELSE stripRuns[Len(stripRuns)]))
  /\ UNCHANGED << stripInput, matchVars, topKVars, config, pc, translatorAnswer,
                  biblicalConcepts, ragVars, retryVars, translateCalls,
                  embedCalls, queryCalls, netVars, viewVars, shareVars,
                  ttsVars,
                  sessionVars,
                  pairVars >>

NextStrip == Strip

SpecStrip == InitStrip /\ [][NextStrip]_vars

(***************************************************************************)
(* The result count on its own: searchVerses called with every topK from   *)
(* -MaxTopK to MaxTopK, or with none, up to the body of the index query    *)
(***************************************************************************)

MaxTopK == 30
TopKs == (0 - MaxTopK)..MaxTopK
SearchOptions ==
  { [k \in present |-> n] : present \in SUBSET {"topK"}, n \in TopKs }

InitTopK ==
  /\ searchOptions \in SearchOptions
  /\ queryBodies = <<>>
  /\ IdleMatch
  /\ IdleStrip
  /\ request = "I miss my mom"
  /\ geminiKey = TRUE
  /\ pineconeConfigured = TRUE
  /\ IdleRun
  /\ IdleShare
  /\ IdleTts
  /\ IdleSession
  /\ IdlePair

\* searchVerses takes topK from its options and queryPinecone posts the query.
SendQuery ==
  /\ queryBodies = <<>>
  /\ queryBodies' = << QueryBody(TopKOf(searchOptions)) >>
  /\ UNCHANGED << searchOptions, matchVars, stripVars, config, pc,
                  translatorAnswer, biblicalConcepts, ragVars, retryVars,
                  translateCalls, embedCalls, queryCalls, netVars, viewVars, shareVars,
                  ttsVars,
                  sessionVars,
                  pairVars >>

NextTopK == SendQuery

SpecTopK == InitTopK /\ [][NextTopK]_vars



(***************************************************************************)
(* The share API: POST /api/share-prayer (api/share-prayer.js) and         *)
(* GET /api/get-prayer/<id> (api/get-prayer/[id].js), with the two stores  *)
(* they talk to.  Only POST and GET requests are modelled.                 *)
(***************************************************************************)

MaxPosts == 2
MaxGets == 2

IdA == <<"k", "3", "x", "9", "a", "b", "c", "d">>
IdB == <<"p", "r", "a", "y", "0", "0", "0", "1">>
IdShort == <<"a", "b", "c">>

\* What nanoid() can return, and the last path segments a GET can carry.
ShortIds == {IdA, IdB}
PathIds == ShortIds \cup {IdShort}

\* JSON bodies of a POST: with and without dedicatedTo, and without the image.
PostBodies ==
  { [prayer |-> "prayer 1", imageDataUrl |-> "image 1", dedicatedTo |-> "Ana"],
    [prayer |-> "prayer 2", imageDataUrl |-> "image 2"],
    [prayer |-> "prayer 3"] }

\* prayerData of share-prayer.js (createdAt left out).
PrayerData(body) ==
  [prayer |-> body.prayer, imageDataUrl |-> body.imageDataUrl,
   dedicatedTo |-> IF "dedicatedTo" \in DOMAIN body THEN body.dedicatedTo
                   ELSE "null",
   views |-> 0]

\* A prayer Redis may hold under prayer:<id> before any request of the model.
SeededPrayers ==
  { [prayer |-> "prayer 0", imageDataUrl |-> "image 0", dedicatedTo |-> "null",
     views |-> v] : v \in {0, 3} }

InitShare ==
  /\ blobStore = [i \in ShortIds |-> <<>>]
  /\ redisStore \in { [i \in ShortIds |-> IF i = IdA THEN held ELSE <<>>] :
                        held \in {<<>>} \cup { <<d>> : d \in SeededPrayers } }
  /\ redisInitial = redisStore
  /\ upstashConfigured \in BOOLEAN
  /\ sharePosts = {}
  /\ shareResponses = {}
  /\ getCalls = {}
  /\ viewSets = {}
  /\ getResponses = {}
  /\ getCount = 0
  /\ postCount = 0
  /\ IdleMatch
  /\ IdleStrip
  /\ IdleTopK
  /\ request = "I miss my mom"
  /\ geminiKey = TRUE
  /\ pineconeConfigured = TRUE
  /\ IdleRun
  /\ IdleTts
  /\ IdleSession
  /\ IdlePair

\* The ids a successful POST has answered with so far.
SharedIds == { r.shortId : r \in {x \in shareResponses : x.status = 200} }

\* POST without prayer or image: 400.
SharePostInvalid(body) ==
  /\ postCount < MaxPosts
  /\ ~({"prayer", "imageDataUrl"} \subseteq DOMAIN body)
  /\ postCount' = postCount + 1
  /\ shareResponses' = shareResponses \cup
       {[post |-> postCount + 1, status |-> 400, shortId |-> <<>>]}
  /\ UNCHANGED << blobStore, redisStore, redisInitial, upstashConfigured,
                  sharePosts, getCalls, viewSets, getResponses, getCount,
                  runVars, matchVars, stripVars, topKVars,
                  ttsVars,
                  sessionVars,
                  pairVars >>

\* POST with prayer and image: a short id is drawn (nanoid() is taken never
\* to repeat) and the data is put to the blob store.
SharePostAccepted(body, id) ==
  /\ postCount < MaxPosts
  /\ {"prayer", "imageDataUrl"} \subseteq DOMAIN body
  /\ blobStore[id] = <<>>
  /\ \A p \in sharePosts : p.id # id
  /\ postCount' = postCount + 1
  /\ sharePosts' = sharePosts \cup
       {[post |-> postCount + 1, id |-> id, data |-> PrayerData(body)]}
  /\ UNCHANGED << blobStore, redisStore, redisInitial, upstashConfigured,
                  shareResponses, getCalls, viewSets, getResponses, getCount,
                  runVars, matchVars, stripVars, topKVars,
                  ttsVars,
                  sessionVars,
                  pairVars >>

\* put() settles: the blob prayers/<id>.json is written and the POST answers
\* 200 with the id, or put() throws and the POST answers 500.
PutSettles(p, ok) ==
  /\ p \in sharePosts
  /\ sharePosts' = sharePosts \ {p}
  /\ IF ok
     THEN /\ blobStore' = [blobStore EXCEPT ![p.id] = << p.data >>]
          /\ shareResponses' = shareResponses \cup
               {[post |-> p.post, status |-> 200, shortId |-> p.id]}
     ELSE /\ shareResponses' = shareResponses \cup
               {[post |-> p.post, status |-> 500, shortId |-> <<>>]}
          /\ UNCHANGED blobStore
  /\ UNCHANGED << redisStore, redisInitial, upstashConfigured, getCalls,
                  viewSets, getResponses, getCount, postCount,
                  runVars, matchVars, stripVars, topKVars,
                  ttsVars,
                  sessionVars,
                  pairVars >>

\* The answer of a GET handler.
GetResponse(n, id, status, data) ==
  [get |-> n, id |-> id, status |-> status, data |-> data,
   sharedBefore |-> id \in SharedIds]

\* GET arrives: a short id or a missing Upstash configuration ends it (400,
\* 500); otherwise the key prayer:<id> is asked of Redis.
GetReceived(id) ==
  /\ getCount < MaxGets
  /\ getCount' = getCount + 1
  /\ IF Len(id) < 6
     THEN /\ getResponses' = getResponses \cup
               {GetResponse(getCount + 1, id, 400, <<>>)}
          /\ UNCHANGED getCalls
     ELSE IF ~upstashConfigured
     THEN /\ getResponses' = getResponses \cup
               {GetResponse(getCount + 1, id, 500, <<>>)}
          /\ UNCHANGED getCalls
     ELSE /\ getCalls' = getCalls \cup
               {[get |-> getCount + 1, id |-> id,
                 sharedBefore |-> id \in SharedIds]}
          /\ UNCHANGED getResponses
  /\ UNCHANGED << blobStore, redisStore, redisInitial, upstashConfigured,
                  sharePosts, shareResponses, viewSets, postCount,
                  runVars, matchVars, stripVars, topKVars,
                  ttsVars,
                  sessionVars,
                  pairVars >>

\* The Redis GET settles.  A failure answers 500, a missing key 404; a stored
\* prayer is answered with 200 and a SET of the same data with views + 1 is
\* sent without being awaited.
RedisGetSettles(g, outcome) ==
  /\ g \in getCalls
  /\ getCalls' = getCalls \ {g}
  /\ IF outcome # "ok"
     THEN /\ getResponses' = getResponses \cup
               {[get |-> g.get, id |-> g.id, status |-> 500, data |-> <<>>,
                 sharedBefore |-> g.sharedBefore]}
          /\ UNCHANGED viewSets
     ELSE IF redisStore[g.id] = <<>>
     THEN /\ getResponses' = getResponses \cup
               {[get |-> g.get, id |-> g.id, status |-> 404, data |-> <<>>,
                 sharedBefore |-> g.sharedBefore]}
          /\ UNCHANGED viewSets
     ELSE LET prayerData == redisStore[g.id][1]
          IN  /\ viewSets' = viewSets \cup
                   {[get |-> g.get, id |-> g.id, state |-> "sent",
                     data |-> [prayerData EXCEPT !.views = @ + 1]]}
              /\ getResponses' = getResponses \cup
                   {[get |-> g.get, id |-> g.id, status |-> 200,
                     data |-> << prayerData >>,
                     sharedBefore |-> g.sharedBefore]}
  /\ UNCHANGED << blobStore, redisStore, redisInitial, upstashConfigured,
                  sharePosts, shareResponses, getCount, postCount,
                  runVars, matchVars, stripVars, topKVars,
                  ttsVars,
                  sessionVars,
                  pairVars >>

\* A view-count SET reaches Redis and replaces the value of the key.
ViewSetApplied(w) ==
  /\ w \in viewSets
  /\ w.state = "sent"
  /\ viewSets' = viewSets \ {w}
  /\ redisStore' = [redisStore EXCEPT ![w.id] = << w.data >>]
  /\ UNCHANGED << blobStore, redisInitial, upstashConfigured, sharePosts,
                  shareResponses, getCalls, getResponses, getCount, postCount,
                  runVars, matchVars, stripVars, topKVars,
                  ttsVars,
                  sessionVars,
                  pairVars >>

\* A view-count SET fails: the failure is logged and nothing is stored.
ViewSetFails(w) ==
  /\ w \in viewSets
  /\ w.state = "sent"
  /\ viewSets' = (viewSets \ {w}) \cup {[w EXCEPT !.state = "failed"]}
  /\ UNCHANGED << blobStore, redisStore, redisInitial, upstashConfigured,
                  sharePosts, shareResponses, getCalls, getResponses, getCount,
                  postCount, runVars, matchVars, stripVars, topKVars,
                  ttsVars,
                  sessionVars,
                  pairVars >>

NextShare ==
  \/ \E body \in PostBodies : SharePostInvalid(body)
  \/ \E body \in PostBodies, id \in ShortIds : SharePostAccepted(body, id)
  \/ \E p \in sharePosts, ok \in BOOLEAN : PutSettles(p, ok)
  \/ \E id \in PathIds : GetReceived(id)
  \/ \E g \in getCalls, outcome \in {"ok", "nonOK", "networkError"} :
       RedisGetSettles(g, outcome)
  \/ \E w \in viewSets : ViewSetApplied(w)
  \/ \E w \in viewSets : ViewSetFails(w)

SpecShare == InitShare /\ [][NextShare]_vars



(***************************************************************************)
(* Speech generation: retry() around the fetch of generateInworldTTS       *)
(* (services/inworldService.ts).                                           *)
(***************************************************************************)

maxAttempts == 3
delayMs == 1000

\* What fn can throw: a response that is not ok (error.response set), or
\* fetch() or res.text() rejecting with an error that has no response.
TtsStatuses == {400, 401, 404, 429, 499, 500, 502, 503}
TtsNetworkMessages ==
  {"Failed to fetch", "Load failed",
   "NetworkError when attempting to fetch resource."}
TtsErrors ==
  { [hasResponse |-> TRUE, status |-> s, message |-> "InWorld TTS error"] :
      s \in TtsStatuses }
  \cup { [hasResponse |-> FALSE, status |-> 0, message |-> msg] :
           msg \in TtsNetworkMessages }

RECURSIVE Pow2(_)
Pow2(n) == IF n = 0 THEN 1 ELSE 2 * Pow2(n - 1)

ttsIsRetryable_ClientErrors(error) ==
  \/ error.hasResponse /\ error.status >= 400
  \/ ~error.hasResponse /\ error.message = "Failed to fetch"

\* isRetryable of retry().
ttsIsRetryable(error) ==
  \/ error.hasResponse /\ error.status >= 500
  \/ ~error.hasResponse /\ error.message = "Failed to fetch"

\* wait of retry(), after the attempts-th failure.
ttsWait(n) == delayMs * Pow2(n - 1)

InitTts ==
  /\ IdleTts
  /\ IdleShare
  /\ IdleMatch
  /\ IdleStrip
  /\ IdleTopK
  /\ request = "I miss my mom"
  /\ geminiKey = TRUE
  /\ pineconeConfigured = TRUE
  /\ IdleRun
  /\ IdleSession
  /\ IdlePair

\* generateInworldTTS reaches retry(), which calls fn for the first time.
TtsStart ==
  /\ ttsState = "idle"
  /\ ttsState' = "calling"
  /\ ttsCalls' = ttsCalls + 1
  /\ UNCHANGED << attempts, ttsWaits, ttsFailures, ttsThrown,
                  runVars, matchVars, stripVars, topKVars, shareVars,
                  sessionVars,
                  pairVars >>

\* fn returns the response: retry() returns it.
TtsFnReturns ==
  /\ ttsState = "calling"
  /\ ttsState' = "returned"
  /\ UNCHANGED << attempts, ttsCalls, ttsWaits, ttsFailures, ttsThrown,
                  runVars, matchVars, stripVars, topKVars, shareVars,
                  sessionVars,
                  pairVars >>

\* fn throws: the catch block counts the attempt and either rethrows or
\* starts the wait.
TtsFnThrows(error) ==
  /\ ttsState = "calling"
  /\ attempts' = attempts + 1
  /\ ttsFailures' = Append(ttsFailures, error)
  /\ IF attempts + 1 >= maxAttempts \/ ~ttsIsRetryable(error)
     THEN /\ ttsState' = "thrown"
          /\ ttsThrown' = << error >>
          /\ UNCHANGED ttsWaits
     ELSE /\ ttsState' = "waiting"
          /\ ttsWaits' = Append(ttsWaits, ttsWait(attempts + 1))
          /\ UNCHANGED ttsThrown
  /\ UNCHANGED << ttsCalls, runVars, matchVars, stripVars, topKVars,
                  shareVars,
                  sessionVars,
                  pairVars >>

\* The wait is over: the loop calls fn again.
TtsWaitElapsed ==
  /\ ttsState = "waiting"
  /\ ttsState' = "calling"
  /\ ttsCalls' = ttsCalls + 1
  /\ UNCHANGED << attempts, ttsWaits, ttsFailures, ttsThrown,
                  runVars, matchVars, stripVars, topKVars, shareVars,
                  sessionVars,
                  pairVars >>

NextTts ==
  \/ TtsStart
  \/ TtsFnReturns
  \/ \E error \in TtsErrors : TtsFnThrows(error)
  \/ TtsWaitElapsed

SpecTts == InitTts /\ [][NextTts]_vars



(***************************************************************************)
(* The viewing session of App.tsx: handlePray, its background share        *)
(* request, handleListen and handleWriteAnother.  The pipeline is reduced  *)
(* to its outcome; prayers are told apart by their number.                 *)
(***************************************************************************)

MaxPrayers == 3

AudioFailure == "Could not generate audio. Try again."

InitSession ==
  /\ IdleSession
  /\ IdleTts
  /\ IdleShare
  /\ IdleMatch
  /\ IdleStrip
  /\ IdleTopK
  /\ request = "I miss my mom"
  /\ geminiKey = TRUE
  /\ pineconeConfigured = TRUE
  /\ IdleRun
  /\ IdlePair

\* handlePray up to its first await: the Pray button exists only while
\* composing.
HandlePray ==
  /\ phase = "composing"
  /\ prayInFlight = 0
  /\ prayCount < MaxPrayers
  /\ prayCount' = prayCount + 1
  /\ prayInFlight' = prayCount + 1
  /\ phase' = "generating"
  /\ viewError' = ""
  /\ shareUrl' = 0
  /\ audioUrl' = 0
  /\ audioRef' = 0
  /\ UNCHANGED << prayerResult, isListening, shareFetches, listenCalls,
                  engineVars, matchVars, stripVars, topKVars, shareVars,
                  ttsVars,
                  pairVars >>

\* The prayer and its letter are ready: the result is shown and the share
\* POST for it is sent without being awaited.
PrayResolves ==
  /\ prayInFlight # 0
  /\ prayerResult' = << [id |-> prayInFlight] >>
  /\ phase' = "viewing"
  /\ shareFetches' = shareFetches \cup {prayInFlight}
  /\ prayInFlight' = 0
  /\ UNCHANGED << viewError, shareUrl, audioUrl, isListening, audioRef,
                  listenCalls, prayCount,
                  engineVars, matchVars, stripVars, topKVars, shareVars,
                  ttsVars,
                  pairVars >>

\* Generation or rendering failed: handlePray's catch.
PrayRejects ==
  /\ prayInFlight # 0
  /\ prayInFlight' = 0
  /\ viewError' = GenericFailure
  /\ phase' = "composing"
  /\ UNCHANGED << prayerResult, shareUrl, audioUrl, isListening, audioRef,
                  shareFetches, listenCalls, prayCount,
                  engineVars, matchVars, stripVars, topKVars, shareVars,
                  ttsVars,
                  pairVars >>

\* The share POST for prayer n settles: with success and a shareUrl the URL
\* is set; otherwise nothing changes.
ShareSettles(n, success) ==
  /\ n \in shareFetches
  /\ shareFetches' = shareFetches \ {n}
  /\ shareUrl' = IF success THEN n ELSE shareUrl
  /\ UNCHANGED << phase, viewError, prayerResult, audioUrl, isListening,
                  audioRef, listenCalls, prayInFlight, prayCount,
                  engineVars, matchVars, stripVars, topKVars, shareVars,
                  ttsVars,
                  pairVars >>

\* handleListen up to its await: cached audio is replayed, otherwise speech
\* is asked for the displayed prayer.
HandleListen ==
  /\ phase = "viewing"
  /\ prayerResult # <<>>
  /\ ~isListening
  /\ IF audioUrl # 0
     THEN /\ audioRef' = audioUrl
          /\ UNCHANGED << isListening, listenCalls >>
     ELSE /\ isListening' = TRUE
          /\ listenCalls' = listenCalls \cup {prayerResult[1].id}
          /\ UNCHANGED audioRef
  /\ UNCHANGED << phase, viewError, prayerResult, shareUrl, audioUrl,
                  shareFetches, prayInFlight, prayCount,
                  engineVars, matchVars, stripVars, topKVars, shareVars,
                  ttsVars,
                  pairVars >>

\* The speech request for prayer n settles: the audio is cached and played,
\* or the error is shown.
ListenSettles(n, ok) ==
  /\ n \in listenCalls
  /\ listenCalls' = listenCalls \ {n}
  /\ isListening' = FALSE
  /\ IF ok
     THEN /\ audioUrl' = n
          /\ audioRef' = n
          /\ UNCHANGED viewError
     ELSE /\ viewError' = AudioFailure
          /\ UNCHANGED << audioUrl, audioRef >>
  /\ UNCHANGED << phase, prayerResult, shareUrl, shareFetches, prayInFlight,
                  prayCount,
                  engineVars, matchVars, stripVars, topKVars, shareVars,
                  ttsVars,
                  pairVars >>

\* handleWriteAnother.
HandleWriteAnother ==
  /\ phase = "viewing"
  /\ prayerResult # <<>>
  /\ prayerResult' = <<>>
  /\ shareUrl' = 0
  /\ audioUrl' = 0
  /\ audioRef' = 0
  /\ viewError' = ""
  /\ phase' = "composing"
  /\ UNCHANGED << isListening, shareFetches, listenCalls, prayInFlight,
                  prayCount,
                  engineVars, matchVars, stripVars, topKVars, shareVars,
                  ttsVars,
                  pairVars >>

NextSession ==
  \/ HandlePray
  \/ PrayResolves
  \/ PrayRejects
  \/ \E n \in shareFetches, success \in BOOLEAN : ShareSettles(n, success)
  \/ HandleListen
  \/ \E n \in listenCalls, ok \in BOOLEAN : ListenSettles(n, ok)
  \/ HandleWriteAnother

SpecSession == InitSession /\ [][NextSession]_vars



(***************************************************************************)
(* Two concurrent runs of generatePrayerFromRequest.  Every step of a run  *)
(* is the function RunStep of the run's position, its locals and the event *)
(* delivered to it; the locals live in the scope of the call.              *)
(***************************************************************************)

Runs == {1, 2}

\* Outcomes the capabilities answer the two runs with.
PairTranslateOutcomes ==
  { [kind |-> "networkError"] }
  \cup { [kind |-> "text", text |-> t] : t \in Translations }
PairEmbedOutcomes == { [kind |-> "ok"], [kind |-> "nonOK"] }
PairMatches ==
  { <<>> }
  \cup { << [vector |-> v, score |-> s] >> :
           v \in {c \in Corpus : c.id \in {"v1", "v3"}}, s \in {549999, 750000} }
PairQueryOutcomes ==
  { [kind |-> "networkError"] }
  \cup { [kind |-> "ok", matches |-> m] : m \in PairMatches }
PairGenerateOutcomes ==
  { [kind |-> "error", message |-> Msg503],
    [kind |-> "error", message |-> Msg401],
    [kind |-> "ok", text |-> "malformed"] }
  \cup { [kind |-> "ok", text |-> "json",
          json |-> [scripture |-> TextKnow, scripture_reference |-> label,
                    prayer |-> "Lord, today I ask",
                    theme |-> "A Reason to Smile"]] :
           label \in {John3, Romans828} }

\* Events a run can be delivered: the call itself, the settling of one of its
\* fetches, or one of its own timers firing.
PairEvents ==
  { [stage |-> "call"], [stage |-> "timeout"], [stage |-> "backoff"] }
  \cup { [stage |-> "translate", outcome |-> o] : o \in PairTranslateOutcomes }
  \cup { [stage |-> "embed", outcome |-> o] : o \in PairEmbedOutcomes }
  \cup { [stage |-> "query", outcome |-> o] : o \in PairQueryOutcomes }
  \cup { [stage |-> "generate", outcome |-> o] : o \in PairGenerateOutcomes }

\* A run before its call, and the locals of a call that has just begun.
NotCalled == [pc |-> "idle", said |-> <<>>, promise |-> [state |-> "pending"]]
FreshLocals ==
  [biblicalConcepts |-> "", ragVerses |-> <<>>, ragContext |-> <<>>,
   prompt |-> PromptOf("", <<>>), attempt |-> 0, searchTimer |-> "unset"]

\* The events a run can be delivered at the position it is at.
Accepts(at, ev) ==
  CASE ev.stage = "call"      -> at = "idle"
    [] ev.stage = "translate" -> at = "translating"
    [] ev.stage = "embed"     -> at = "embedding"
    [] ev.stage = "query"     -> at = "querying"
    [] ev.stage = "timeout"   -> at \in {"embedding", "querying"}
    [] ev.stage = "generate"  -> at = "generating"
    [] ev.stage = "backoff"   -> at = "backoff"

\* The search is over with these results: the prompt is built and the first
\* generation call is made.
GenerationEntered(p, l, req, results, timer) ==
  LET built == PromptOf(req, ragContextOf(results))
  IN  [pos |-> [p EXCEPT !.pc = "generating",
                         !.said = Append(@, [stage |-> "generate",
                                             prompt |-> built])],
       loc |-> [l EXCEPT !.ragVerses = results,
                         !.ragContext = ragContextOf(results),
                         !.prompt = built, !.attempt = 1,
                         !.searchTimer = timer]]

\* One step of a run: position p and locals l, called with req, delivered ev.
RunStep(p, l, req, ev) ==
  CASE ev.stage = "call" ->
         [pos |-> [p EXCEPT !.pc = "translating",
                            !.said = Append(@, [stage |-> "translate",
                                                request |-> req])],
          loc |-> FreshLocals]
    [] ev.stage = "translate" ->
         LET concepts == TranslationOf(req, ev.outcome)
         IN  [pos |-> [p EXCEPT !.pc = "embedding",
                                !.said = Append(@, [stage |-> "embed",
                                                    query |-> SearchQuery(concepts)])],
              loc |-> [l EXCEPT !.biblicalConcepts = concepts,
                                !.searchTimer = "armed"]]
    [] ev.stage = "embed" ->
         IF ev.outcome.kind = "ok"
         THEN [pos |-> [p EXCEPT !.pc = "querying",
                                 !.said = Append(@, [stage |-> "query",
                                                     body |-> QueryBody(DefaultTopK)])],
               loc |-> l]
         ELSE GenerationEntered(p, l, req, <<>>, "cleared")
    [] ev.stage = "query" ->
         IF ev.outcome.kind = "ok"
         THEN GenerationEntered(p, l, req,
                [i \in 1..Len(ev.outcome.matches) |->
                   RetrievedVerse(ev.outcome.matches[i])], "cleared")
         ELSE GenerationEntered(p, l, req, <<>>, "cleared")
    [] ev.stage = "timeout" -> GenerationEntered(p, l, req, <<>>, "fired")
    [] ev.stage = "generate" ->
         IF ev.outcome.kind = "ok"
         THEN [pos |-> [p EXCEPT !.pc = "done",
                                 !.promise = Settle(ev.outcome, l.ragVerses)],
               loc |-> l]
         ELSE IF shouldRetry(ev.outcome, l.attempt)
         THEN [pos |-> [p EXCEPT !.pc = "backoff"], loc |-> l]
         ELSE [pos |-> [p EXCEPT !.pc = "done",
                                 !.promise = [state |-> "rejected",
                                              reason |-> ev.outcome]],
               loc |-> l]
    [] ev.stage = "backoff" ->
         [pos |-> [p EXCEPT !.pc = "generating",
                            !.said = Append(@, [stage |-> "generate",
                                                prompt |-> l.prompt])],
          loc |-> [l EXCEPT !.attempt = @ + 1]]

\* Mutation of ScopeOf: the locals hoisted to one module-level scope.
ScopeOf_Module(r) == 1

\* The scope that holds the locals of run r: the call's own (ragContext,
\* ragVerses, the AbortController and withRetry's attempt are declared inside
\* the functions).
ScopeOf(r) == r

\* The runs are alike, so the first one's request is fixed.
InitPair ==
  /\ runRequest \in {q \in [Runs -> Requests] : q[1] = "I miss my mom"}
  /\ runPos = [r \in Runs |-> NotCalled]
  /\ runLocals = [s \in Runs |-> FreshLocals]
  /\ runEvents = [r \in Runs |-> <<>>]
  /\ touched = [s \in Runs |-> {}]
  /\ IdleSession
  /\ IdleTts
  /\ IdleShare
  /\ IdleMatch
  /\ IdleStrip
  /\ IdleTopK
  /\ request = "I miss my mom"
  /\ geminiKey = TRUE
  /\ pineconeConfigured = TRUE
  /\ IdleRun

\* Run r is delivered ev and runs up to its next await.
Deliver(r, ev) ==
  /\ Accepts(runPos[r].pc, ev)
  /\ (ev.stage = "timeout" => runLocals[ScopeOf(r)].searchTimer = "armed")
  /\ LET next == RunStep(runPos[r], runLocals[ScopeOf(r)], runRequest[r], ev)
     IN  /\ runPos' = [runPos EXCEPT ![r] = next.pos]
         /\ runLocals' = [runLocals EXCEPT ![ScopeOf(r)] = next.loc]
  /\ runEvents' = [runEvents EXCEPT ![r] = Append(@, ev)]
  /\ touched' = [touched EXCEPT ![ScopeOf(r)] = @ \cup {r}]
  /\ UNCHANGED << runRequest, runVars, matchVars, stripVars, topKVars,
                  shareVars, ttsVars, sessionVars >>

PairCall(r) == Deliver(r, [stage |-> "call"])
PairTranslateReturn(r, outcome) ==
  Deliver(r, [stage |-> "translate", outcome |-> outcome])
PairEmbedReturn(r, outcome) ==
  Deliver(r, [stage |-> "embed", outcome |-> outcome])
PairQueryReturn(r, outcome) ==
  Deliver(r, [stage |-> "query", outcome |-> outcome])
PairSearchTimeout(r) == Deliver(r, [stage |-> "timeout"])
PairGenerateReturn(r, outcome) ==
  Deliver(r, [stage |-> "generate", outcome |-> outcome])
PairBackoffElapsed(r) == Deliver(r, [stage |-> "backoff"])

NextPair ==
  \/ \E r \in Runs : PairCall(r)
  \/ \E r \in Runs, outcome \in PairTranslateOutcomes :
       PairTranslateReturn(r, outcome)
  \/ \E r \in Runs, outcome \in PairEmbedOutcomes : PairEmbedReturn(r, outcome)
  \/ \E r \in Runs, outcome \in PairQueryOutcomes : PairQueryReturn(r, outcome)
  \/ \E r \in Runs : PairSearchTimeout(r)
  \/ \E r \in Runs, outcome \in PairGenerateOutcomes :
       PairGenerateReturn(r, outcome)
  \/ \E r \in Runs : PairBackoffElapsed(r)

SpecPair == InitPair /\ [][NextPair]_vars


(***************************************************************************)
(* Properties                                                              *)
(***************************************************************************)

\* The run has returned a prayer.
Fulfilled == promise.state = "fulfilled"

\* The answer of the last generateContent call.
LastResponse == responses[Len(responses)]

\* The object the generator produced, when the last call answered with JSON.
Generated == LastResponse.json

\* The generator's object with only its scripture text stripped.
GeneratedStripped == [Generated EXCEPT !.scripture = cleanKJV(@)]

\* The instruction sentence in the prompt of the generation call.
PromptNote == prompt.ragContext[Len(prompt.ragContext)].note

\* A rejection of the generation capability that signals a transient failure.
Transient(response) ==
  /\ response.kind = "error"
  /\ "message" \in DOMAIN response
  /\ response.message \in {Msg503, MsgOverloaded, MsgUnavailable}

\* C1: with b the best score (millionths), b >= 0.75 gives HIGH, 0.55 <= b <
\* 0.75 gives MEDIUM, b < 0.55 gives LOW, and the sentence in the prompt is
\* the one of that tier.
ThmC1_TierBoundaries ==
  ragVerses # <<>> =>
    LET b == ragVerses[1].score
    IN  /\ b >= 750000 => loggedTier = "HIGH" /\ PromptNote = NoteHigh
        /\ (b >= 550000 /\ b < 750000) =>
             loggedTier = "MEDIUM" /\ PromptNote = NoteMedium
        /\ b < 550000 => loggedTier = "LOW" /\ PromptNote = NoteLow
        /\ b = 750000 => loggedTier = "HIGH"
        /\ b = 749999 => loggedTier = "MEDIUM"
        /\ b = 550000 => loggedTier = "MEDIUM"
        /\ b = 549999 => loggedTier = "LOW"

WitC1_MediumAtLowerBound ==
  /\ pc = "generating"
  /\ ragVerses # <<>>
  /\ ragVerses[1].score = 550000
  /\ loggedTier = "MEDIUM"
  /\ PromptNote = NoteMedium

\* C2: when every call of the generation capability fails with a transient
\* signal, there are never more than 3 calls, the run never returns a result,
\* and it ends only after exactly 3 calls, rejected with the third failure.
ThmC2_ThreeAttemptsThenRaise ==
  (\A i \in 1..Len(responses) : Transient(responses[i])) =>
    /\ generateCalls <= 3
    /\ ~Fulfilled
    /\ pc = "done" =>
         /\ generateCalls = 3
         /\ Len(responses) = 3
         /\ promise = [state |-> "rejected", reason |-> responses[3]]

WitC2_ThreeTransientFailures ==
  /\ pc = "done"
  /\ Len(responses) = 3
  /\ \A i \in 1..3 : Transient(responses[i])
  /\ promise.state = "rejected"

\* C3: a generation failure that is not a transient signal (a rejection of
\* another kind, or a response that is not JSON) ends the run at once, on
\* whichever attempt it occurs: it is the last call, no wait follows it, and
\* the run is rejected with it.
ThmC3_PermanentFailureNotRetried ==
  \A i \in 1..Len(responses) :
    LET r == responses[i]
    IN  /\ (r.kind = "error" /\ ~Transient(r)) =>
             /\ i = Len(responses)
             /\ generateCalls = i
             /\ Len(delays) = i - 1
             /\ pc = "done"
             /\ promise = [state |-> "rejected", reason |-> r]
        /\ (r.kind = "ok" /\ r.text = "malformed") =>
             /\ i = Len(responses)
             /\ generateCalls = i
             /\ pc = "done"
             /\ promise.state = "rejected"

WitC3_PermanentOnSecondAttempt ==
  /\ pc = "done"
  /\ Len(responses) = 2
  /\ Transient(responses[1])
  /\ responses[2] = [kind |-> "error", message |-> Msg401]
  /\ generateCalls = 2
  /\ promise.state = "rejected"

\* C4 (as claimed): a response that parses but lacks a required field is
\* rejected without another call, and no returned prayer lacks a required
\* field.
ClaimC4_MissingFieldRejected ==
  /\ Fulfilled => Fields \subseteq DOMAIN promise.value
  /\ (/\ pc = "done"
      /\ LastResponse.kind = "ok"
      /\ LastResponse.text # "malformed"
      /\ ~(Fields \subseteq DOMAIN ParseResponse(LastResponse).value)) =>
       /\ promise.state = "rejected"
       /\ generateCalls = Len(responses)

\* C5: when the translator's capability errors (network failure, non-OK
\* status, malformed body, no text) or the key is missing, translate has
\* returned exactly the request; the run goes on.
ThmC5_TranslatorFallback ==
  /\ translatorAnswer.kind \in {"networkError", "nonOK", "malformedBody", "noText"} =>
       /\ biblicalConcepts = request
       /\ pc \in {"embedding", "querying"}
  /\ (~geminiKey /\ pc # "idle") =>
       /\ biblicalConcepts = request
       /\ translateCalls = 0
       /\ pc \in {"generating", "backoff", "done"}

WitC5_FallbackAfterNetworkError ==
  /\ translatorAnswer.kind = "networkError"
  /\ biblicalConcepts = request
  /\ pc = "embedding"

\* C6: a failure of the embedding or retrieval stage is caught: the evidence
\* block is empty, the generation call is made, a rejection of the run comes
\* from generation only, and a returned prayer is the generator's own with
\* only its scripture text stripped.
ThmC6_RetrievalFailureDegrades ==
  ragError # "" =>
    /\ ragVerses = <<>>
    /\ ragContext = <<>>
    /\ prompt = [request |-> request, ragContext |-> <<>>]
    /\ generateCalls >= 1
    /\ promise.state = "rejected" =>
         /\ Len(responses) >= 1
         /\ \/ promise.reason = LastResponse
            \/ /\ LastResponse.kind = "ok"
               /\ promise.reason.name \in {"SyntaxError", "TypeError"}
    /\ Fulfilled => promise.value = GeneratedStripped

WitC6_TimeoutThenPrayer ==
  /\ ragError = "RAG search timed out"
  /\ Fulfilled
  /\ Generated.scripture = TextRest
  /\ promise.value.scripture # TextRest

\* C7: with no candidates, the returned label is the generator's, the
\* returned text is strip of the generator's text, theme and body are
\* unchanged.
ThmC7_NoCandidatesNoInvention ==
  (Fulfilled /\ ragVerses = <<>>) =>
    /\ DOMAIN promise.value = DOMAIN Generated
    /\ promise.value.scripture = cleanKJV(Generated.scripture)
    /\ \A k \in DOMAIN Generated \ {"scripture"} : promise.value[k] = Generated[k]

WitC7_EmptyIndexAnswer ==
  /\ Fulfilled
  /\ ragVerses = <<>>
  /\ ragError = ""
  /\ queryCalls = 1
  /\ Generated = [scripture |-> TextRest, scripture_reference |-> Romans828,
                  prayer |-> "Lord, today I ask", theme |-> "A Reason to Smile"]
  /\ promise.value.scripture_reference = Romans828
  /\ promise.value.scripture = <<"I", " ", "r", "e", "s", "t">>

\* The positions of the retrieved verses the generator's label matches.
MatchingVerses ==
  { i \in 1..Len(ragVerses) :
      MatchesCitation(Generated.scripture_reference, ragVerses[i].reference) }

ThmC9_UnmatchedKeepsGenerators ==
  (Fulfilled /\ ragVerses # <<>> /\ MatchingVerses = {}) =>
    /\ promise.value = GeneratedStripped
    /\ promise.value.scripture_reference = Generated.scripture_reference
    /\ \A i \in 1..Len(ragVerses) :
         promise.value.scripture_reference # ragVerses[i].reference

WitC9_UnmatchedWithCandidates ==
  /\ Fulfilled
  /\ Len(ragVerses) = 2
  /\ MatchingVerses = {}
  /\ Generated.scripture_reference = Romans828
  /\ Generated.scripture = TextRest
  /\ promise.value.scripture # TextRest


\* a contains b as a contiguous run of characters.
Contains(a, b) ==
  \E i \in 1..(Len(a) + 1) : \E j \in (i - 1)..Len(a) : SubSeq(a, i, j) = b

\* The longest prefix of s holding none of the delimiters.
LeadingToken(s, delimiters) ==
  LET n == CHOOSE n \in 0..Len(s) :
             /\ \A k \in 1..n : s[k] \notin delimiters
             /\ n = Len(s) \/ s[n + 1] \in delimiters
  IN  SubSeq(s, 1, n)

\* C10 (as claimed): a label g matches a reference c exactly when g contains
\* c, or c contains g, or their first whitespace-delimited segments are equal.
ClaimC10_WhitespaceSegments ==
  probeMatched # "untested" =>
    (probeMatched = "matched" <=>
       \/ Contains(probeLabel, probeReference)
       \/ Contains(probeReference, probeLabel)
       \/ LeadingToken(probeLabel, Whitespace) = LeadingToken(probeReference, Whitespace))

\* C10 (amended): a label g matches a reference c exactly when g contains c,
\* or c contains g, or the text before the first space character (U+0020) of
\* g equals the text before the first space character of c; other whitespace
\* does not end the segment.
ThmC10_SpaceSegments ==
  probeMatched # "untested" =>
    (probeMatched = "matched" <=>
       \/ Contains(probeLabel, probeReference)
       \/ Contains(probeReference, probeLabel)
       \/ LeadingToken(probeLabel, {" "}) = LeadingToken(probeReference, {" "}))

WitC10_SegmentsOnly ==
  /\ probeMatched = "matched"
  /\ probeLabel = <<"J", " ", "3">>
  /\ probeReference = <<"J", " ", "J">>
  /\ ~Contains(probeLabel, probeReference)
  /\ ~Contains(probeReference, probeLabel)

\* C11: the citation match is symmetric: a label g matches a reference c
\* exactly when c, taken as the label, matches g taken as the reference; in
\* particular "John 3" matches "John 3:16" and "John 3:16" matches "John 3".
ThmC11_MatchSymmetric ==
  /\ (probeMatched # "untested" /\ probeMatchedBack # "untested") =>
       probeMatched = probeMatchedBack
  /\ matchedVerse(John3, << [reference |-> John316, text |-> <<>>, score |-> 0] >>) = 1
  /\ matchedVerse(John316, << [reference |-> John3, text |-> <<>>, score |-> 0] >>) = 1

WitC11_ContainedEitherWay ==
  /\ probeLabel = <<"3">>
  /\ probeReference = <<"J", "3">>
  /\ FirstSegment(probeLabel) # FirstSegment(probeReference)
  /\ probeMatched = "matched"
  /\ probeMatchedBack = "matched"

\* A '{' of s has a '}' somewhere after it: s holds a bracketed note.
HasNote(s) ==
  \E i \in 1..Len(s) : \E j \in (i + 1)..Len(s) : s[i] = "{" /\ s[j] = "}"

\* C12: stripping is idempotent: cleanKJV applied to its own result returns
\* that result unchanged, for every text (nested, unbalanced and adjacent
\* braces, whitespace runs around notes).
ThmC12_StripIdempotent ==
  Len(stripRuns) = 2 => stripRuns[2] = stripRuns[1]

WitC12_NestedUnbalanced ==
  /\ stripInput = <<"a", " ", "{", "}", "\t", "}">>
  /\ stripRuns = << <<"a", "\t", "}">>, <<"a", "\t", "}">> >>

\* C13 (as claimed): the result of cleanKJV holds no '{' and no '}'.
ClaimC13_NoBraceLeft ==
  Len(stripRuns) >= 1 =>
    \A i \in 1..Len(stripRuns[1]) : stripRuns[1][i] \notin {"{", "}"}

\* C13 (amended): the result of cleanKJV holds no '{' that has a '}' after
\* it; a '{' with no '}' after it and a '}' with no '{' before it are kept,
\* so every '}' of the result comes before every '{' of the result.
ThmC13_NoNoteLeft ==
  Len(stripRuns) >= 1 =>
    /\ ~HasNote(stripRuns[1])
    /\ (~HasNote(stripInput) =>
          \A c \in {"{", "}"} :
            Cardinality({i \in 1..Len(stripRuns[1]) : stripRuns[1][i] = c})
              = Cardinality({i \in 1..Len(stripInput) : stripInput[i] = c}))

WitC13_BracesSurvive ==
  /\ stripInput = <<"{", "a", "}", "}", "{">>
  /\ Len(stripRuns) >= 1
  /\ stripRuns[1] = <<"}", "{">>

\* C14: whichever way a run returns a prayer (label matched to a retrieved
\* verse, unmatched, nothing retrieved, retrieval failed), the returned
\* scripture text holds no '{' followed later by a '}'.
ThmC14_ReturnedTextHasNoNote ==
  Fulfilled =>
    /\ "scripture" \in DOMAIN promise.value
    /\ ~HasNote(promise.value.scripture)

WitC14_MatchedVerseHadNote ==
  /\ Fulfilled
  /\ Len(ragVerses) >= 1
  /\ ragVerses[1].reference = John316
  /\ HasNote(ragVerses[1].text)
  /\ "scripture_reference" \in DOMAIN promise.value
  /\ promise.value.scripture_reference = John316
  /\ promise.value.scripture = <<"G", "o", "d", " ", "s", "o">>

\* C15: whatever topK searchVerses is called with, the topK posted to the
\* index is at most 10, and a requested topK of 10 or less (5 when the caller
\* gives none) is posted unchanged.
ThmC15_TopKClamped ==
  \A i \in 1..Len(queryBodies) :
    /\ queryBodies[i].topK <= 10
    /\ ("topK" \in DOMAIN searchOptions /\ searchOptions.topK <= 10) =>
         queryBodies[i].topK = searchOptions.topK
    /\ "topK" \notin DOMAIN searchOptions => queryBodies[i].topK = 5

WitC15_ElevenBecomesTen ==
  /\ "topK" \in DOMAIN searchOptions
  /\ searchOptions.topK = 11
  /\ Len(queryBodies) = 1
  /\ queryBodies[1].topK = 10

\* The calls of the retrieval stage: translation, embedding, index query.
RetrievalCalls == {"translate", "embed", "query"}

\* C16: the stages of a run happen strictly in order: the embedding is sent
\* only after the translation returned, the index query only after the
\* embedding returned, generation only after the retrieval stage finished
\* (with results or with a caught failure), the prayer is validated and
\* returned only after generation answered; never are two external calls of
\* the run in flight together.
ThmC16_StagesInOrder ==
  /\ Cardinality(inFlight) <= 1
  /\ embedCalls >= 1 =>
       translateCalls = 1 /\ "translate" \notin inFlight /\ biblicalConcepts # ""
  /\ queryCalls >= 1 => embedCalls = 1 /\ "embed" \notin inFlight
  /\ generateCalls >= 1 =>
       /\ inFlight \cap RetrievalCalls = {}
       /\ searchTimer \in {"fired", "cleared"}
       /\ biblicalConcepts # ""
       /\ pc \notin {"idle", "translating", "embedding", "querying"}
  /\ promise.state # "pending" =>
       /\ inFlight = {}
       /\ generateCalls >= 1
       /\ Len(responses) = generateCalls
  /\ Fulfilled => LastResponse.kind = "ok"

WitC16_AllStagesThenRetry ==
  /\ Fulfilled
  /\ translateCalls = 1
  /\ embedCalls = 1
  /\ queryCalls = 1
  /\ generateCalls = 2
  /\ Len(ragVerses) = 2
  /\ inFlight = {}

SearchAlwaysEnds ==
  (pc \in {"embedding", "querying"}) ~> (generateCalls >= 1)

\* C18 (as claimed): once the translator's fetch is sent, the translator
\* eventually returns (the request itself when the capability never answers)
\* and the run reaches the embedding stage.
ClaimC18_TranslateEventuallyReturns ==
  (pc = "translating") ~> (biblicalConcepts # "" /\ embedCalls >= 1)

\* C19 (as claimed): once a generation attempt is made, the run eventually
\* ends with a prayer or an error, even when the capability never answers.
ClaimC19_RunEventuallyEnds ==
  (pc = "generating") ~> (promise.state # "pending")

\* C20: a generation failure that was not recovered rejects the run with that
\* failure and no prayer; the view then shows the one generic message, is
\* back in the composing phase, has entered no viewing phase and has set no
\* prayer result.  The viewing phase is entered only with a returned prayer.
ThmC20_GenerationFailureIsFatal ==
  /\ promise.state = "rejected" =>
       /\ pc = "done"
       /\ "value" \notin DOMAIN promise
       /\ LastResponse.kind = "error" => promise.reason = LastResponse
       /\ phase = "composing"
       /\ viewError = "The prayer could not be written. Please try again."
       /\ prayerResult = <<>>
  /\ phase = "viewing" =>
       /\ Fulfilled
       /\ prayerResult = << promise.value >>
       /\ viewError = ""
  /\ (pc # "idle" /\ promise.state = "pending") =>
       phase = "generating" /\ viewError = "" /\ prayerResult = <<>>

WitC20_RetriesExhausted ==
  /\ promise.state = "rejected"
  /\ generateCalls = 3
  /\ Len(responses) = 3
  /\ promise.reason = [kind |-> "error", message |-> MsgOverloaded]
  /\ phase = "composing"
  /\ viewError = GenericFailure
  /\ prayerResult = <<>>

\* C22: in one run the translator's capability, the embedding capability
\* and the index are each called at most once; after a failed translation,
\* embedding or index query the run goes on without calling it again.
ThmC22_RetrievalCallsOnce ==
  /\ translateCalls <= 1
  /\ embedCalls <= 1
  /\ queryCalls <= 1
  /\ (ragError # "" /\ pc \in {"generating", "backoff", "done"}) =>
       /\ inFlight \cap RetrievalCalls = {}
       /\ translateCalls + embedCalls + queryCalls <= 3

WitC22_QueryFailedOnce ==
  /\ pc = "done"
  /\ ragError = "Failed to search vector database"
  /\ translateCalls = 1
  /\ embedCalls = 1
  /\ queryCalls = 1
  /\ generateCalls = 3

\* The scores of the retrieved verses.
RetrievedScores == { ragVerses[i].score : i \in 1..Len(ragVerses) }

\* The highest of the retrieved scores.
HighestScore == CHOOSE b \in RetrievedScores : \A x \in RetrievedScores : x <= b

\* C23: the tier the run logs and the instruction sentence it hands to
\* generation depend only on the highest score among the retrieved verses,
\* whatever the other verses and their scores are.
ThmC23_TierFromHighestScore ==
  ragVerses # <<>> =>
    /\ ragVerses[1].score = HighestScore
    /\ loggedTier = confidenceTier(HighestScore)
    /\ PromptNote = confidenceNote(HighestScore)

WitC23_LowerScoresIgnored ==
  /\ Len(ragVerses) = 2
  /\ ragVerses[1].score = 750000
  /\ ragVerses[2].score = 549999
  /\ loggedTier = "HIGH"
  /\ PromptNote = NoteHigh

\* C24: the wait after the k-th attempt, made only when that attempt failed
\* with a transient signal and was not the third, is k times 2000 ms (2000,
\* then 4000); no wait follows the third attempt or a failure of another
\* kind.
ThmC24_LinearBackoff ==
  /\ Len(delays) <= 2
  /\ Len(delays) <= Len(responses)
  /\ \A k \in 1..Len(delays) :
       /\ delays[k] = k * 2000
       /\ Transient(responses[k])
  /\ \A k \in 1..Len(responses) :
       (k = 3 \/ ~Transient(responses[k])) => Len(delays) < k
  /\ pc = "backoff" => Len(delays) = Len(responses)
  /\ pc = "done" => Len(delays) = Len(responses) - 1

WitC24_TwoWaitsThenStop ==
  /\ pc = "done"
  /\ delays = <<2000, 4000>>
  /\ Len(responses) = 3
  /\ Transient(responses[3])

\* C25: the evidence block is empty exactly when no verse was retrieved, and
\* then no tier is computed; otherwise it holds one entry per retrieved
\* verse, numbered from 1 in retrieval order, followed by exactly one
\* instruction sentence, the one of the computed tier.
ThmC25_EvidenceBlockShape ==
  pc \in {"generating", "backoff", "done"} =>
    /\ prompt.ragContext = ragContext
    /\ ragContext = <<>> <=> ragVerses = <<>>
    /\ ragVerses = <<>> => loggedTier = "NONE"
    /\ ragVerses # <<>> =>
         /\ Len(ragContext) = Len(ragVerses) + 1
         /\ \A i \in 1..Len(ragVerses) :
              /\ DOMAIN ragContext[i] = {"n", "reference", "relevance", "text"}
              /\ ragContext[i].n = i
              /\ ragContext[i].reference = ragVerses[i].reference
              /\ ragContext[i].text = ragVerses[i].text
              /\ ragContext[i].relevance * 10000 - 5000 <= ragVerses[i].score
              /\ ragVerses[i].score < ragContext[i].relevance * 10000 + 5000
         /\ DOMAIN ragContext[Len(ragContext)] = {"note"}
         /\ loggedTier \in {"HIGH", "MEDIUM", "LOW"}
         /\ ragContext[Len(ragContext)].note =
              (CASE loggedTier = "HIGH" -> NoteHigh
                 [] loggedTier = "MEDIUM" -> NoteMedium
                 [] OTHER -> NoteLow)

WitC25_TwoEntriesThenSentence ==
  /\ pc = "generating"
  /\ Len(ragVerses) = 2
  /\ Len(ragContext) = 3
  /\ ragContext[2].n = 2
  /\ ragContext[2].reference = Psalm231
  /\ ragContext[3] = [note |-> NoteMedium]

\* C26 (as claimed): a GET for an id that a successful POST has answered
\* with returns, unless a store fails (500), status 200 and the prayer, image
\* and dedication that POST stored.
ClaimC26_SharedPrayerIsReturned ==
  \A r \in getResponses :
    (r.sharedBefore /\ r.status # 500) =>
      /\ r.status = 200
      /\ r.data # <<>>
      /\ blobStore[r.id] # <<>>
      /\ r.data[1].prayer = blobStore[r.id][1].prayer
      /\ r.data[1].imageDataUrl = blobStore[r.id][1].imageDataUrl
      /\ r.data[1].dedicatedTo = blobStore[r.id][1].dedicatedTo

\* The GETs of id that were answered with the prayer.
SuccessfulGets(id) == { r \in getResponses : r.id = id /\ r.status = 200 }

\* C27 (as claimed): once every request for a stored prayer has been served
\* and every SET has reached the store (none failed), its stored view count
\* is the count it started with plus the number of GETs that returned it.
ClaimC27_EveryViewCounted ==
  \A id \in ShortIds :
    ( /\ id \in DOMAIN redisInitial
      /\ redisInitial[id] # <<>>
      /\ \A g \in getCalls : g.id # id
      /\ \A w \in viewSets : w.id # id ) =>
      redisStore[id][1].views =
        redisInitial[id][1].views + Cardinality(SuccessfulGets(id))

\* The waits retry() slept were delayMs, 2 * delayMs, ... in this order.
WaitsDouble ==
  \A k \in 1..Len(ttsWaits) : ttsWaits[k] = delayMs * Pow2(k - 1)

\* A failure that was followed by another call was a 5xx response or a
\* 'Failed to fetch' network error.
RetriedOnlyRetryable ==
  \A k \in 1..Len(ttsFailures) :
    (k < ttsCalls \/ k <= Len(ttsWaits)) =>
      \/ ttsFailures[k].hasResponse /\ ttsFailures[k].status \in 500..599
      \/ /\ ~ttsFailures[k].hasResponse
         /\ ttsFailures[k].message = "Failed to fetch"

ClaimC29_ShareUrlOfShownPrayer ==
  (phase = "viewing" /\ prayerResult # <<>> /\ shareUrl # 0) =>
    shareUrl = prayerResult[1].id

\* C30 (as claimed): while a prayer is shown, cached audio and playing audio
\* were generated from that prayer's speech text.
ClaimC30_AudioOfShownPrayer ==
  (phase = "viewing" /\ prayerResult # <<>>) =>
    /\ audioUrl # 0 => audioUrl = prayerResult[1].id
    /\ audioRef # 0 => audioRef = prayerResult[1].id

\* The run alone: RunStep folded over the events of one run, from a run not
\* yet called, in a scope of its own.
RECURSIVE Alone(_, _, _)
Alone(st, req, evs) ==
  IF evs = <<>> THEN st
  ELSE Alone(RunStep(st.pos, st.loc, req, Head(evs)), req, Tail(evs))

AloneWith(r) ==
  Alone([pos |-> NotCalled, loc |-> FreshLocals], runRequest[r], runEvents[r])

====
